---- MODULE Spec2Model ----
(***************************************************************************)
(* TrickrTreat: a PIR motion sensor switches an mpv player between an idle *)
(* loop and a one-shot trigger presentation.                               *)
(*                                                                         *)
(*   variant = "single" : tricktreatmpv.py, one video file, the polling    *)
(*                        loop seeks between the idle and trigger segments *)
(*   variant = "two"    : trickrtreat.py, two video files, the GPIO        *)
(*                        callback loads trigger.mp4, sleeps, loads idle   *)
(*                                                                         *)
(* Player positions are whole seconds.  One pass of the polling loop of    *)
(* tricktreatmpv.py takes milliseconds, so the player position advances    *)
(* only while the loop is in its time.sleep, by at most one second per     *)
(* pass; the GPIO callback thread may run between any two statements of    *)
(* the loop.                                                               *)
(***************************************************************************)
EXTENDS Integers, Sequences, FiniteSets, TLC

\* ------------------------------------------------------------ constants
\* tricktreatmpv.py
IDLE_START_S == 0
IDLE_END_S == 50
TRIGGER_START_S == 53
TRIGGER_END_S == 76

\* trickrtreat.py
TRIGGER_DURATION_SECONDS == 26
\* bouncetime of add_event_detect, in milliseconds
BOUNCETIME_MS == 5000
\* time.sleep in start_mpv_process
START_SLEEP_S == 2
\* time.sleep of the main loop
LOOP_SLEEP_S == 1
\* mpv_process.wait(timeout=...) in cleanup_and_exit
WAIT_TIMEOUT_S == 5

\* ------------------------------------------------------------ bounds
\* length of the video file in seconds (longer than the trigger segment)
VideoLen == 78
\* player processes that may be spawned in one run
MaxSpawns == 3
\* cap of the notification credit (history variable)
MaxCredit == 2

VARIABLES
    variant,                \* which script runs: "single" or "two"
    pc,                     \* position of the main thread
    exc,                    \* exception/exit cause being propagated ("" = none)
    exitCode,               \* -1 while running, else the process exit code
    gpio,                   \* "detect" (edge detection registered), "setup", "clean"
    mpv_process,            \* 0 = None, else the id of the Popen object's process
    alive,                  \* ids of the player processes that are running
    nSpawn,                 \* number of player processes spawned so far
    sockFile,               \* 0 = no socket file, else id of the player that made it
                            \* (-1: a file left by an earlier run)
    pos,                    \* player time-pos (single-file variant)
    motion_detected_flag,   \* tricktreatmpv.py:24
    current_state,          \* tricktreatmpv.py:84
    response,               \* kind of the reply of the tick's position query
    current_time,           \* tricktreatmpv.py:92
    cmds,                   \* seek targets issued in the current tick, in order
    tick0,                  \* current_state and flag as the tick's query was made
    motionInIdle,           \* history: a notification arrived since IDLE was entered
    credit,                 \* history: notifications minus IDLE->TRIGGER transitions
    trigSeeks,              \* history: seek(trigger_start) since the last line-113 seek
    trigTime,               \* history: seconds played since TRIGGER was entered (capped)
    advanced,               \* the position has advanced since the loop last slept
    cpc,                    \* position of the GPIO callback thread (two-file variant)
    waitLeft,               \* seconds left of the callback's time.sleep
    edge,                   \* a rising edge is latched while a callback runs
    sinceCall,              \* seconds since the last callback dispatch (capped)
    sleepLeft,              \* seconds left of the main thread's sleep or wait
    playing,                \* file the current player shows: "idle" or "trigger"
    looping,                \* loop-file of the current player is inf
    smpRet,                 \* where start_mpv_process returns to
    cl,                     \* the running cleanup_and_exit call: signum given, return
                            \* point, and whether main's try block is active
    fatal,                  \* history: a Popen of start_mpv_process has raised
    spawnAfterFatal,        \* history: Popen was called again after it had raised
    cleanups,               \* history: completed runs of cleanup_and_exit (capped)
    edgeSinceReturn,        \* history: an edge arrived since the callback returned
    cycleFresh,             \* history: the running callback was started by such an edge
    recov,                   \* history: the polls after the main loop saw a dead player
    staleSend               \* history: "died" when the player of the running cycle has
                            \* exited, "sent" when a command of that cycle was delivered since

sharedVars == <<variant, pc, exc, exitCode, gpio, mpv_process, alive, nSpawn, sockFile>>
singleVars == <<pos, motion_detected_flag, current_state, response, current_time, cmds,
                tick0, motionInIdle, credit, trigSeeks, trigTime, advanced>>
twoVars == <<cpc, waitLeft, edge, sinceCall, sleepLeft, playing, looping, smpRet, cl,
             fatal, spawnAfterFatal, cleanups, edgeSinceReturn, cycleFresh, recov,
             staleSend>>
vars == <<sharedVars, singleVars, twoVars>>

playerVars == <<mpv_process, alive, nSpawn, sockFile, pos>>
loopVars == <<motion_detected_flag, current_state, response, current_time, cmds, tick0>>
histVars == <<motionInIdle, credit, trigSeeks>>
playVars == <<trigTime, advanced>>

\* one playback of the trigger segment, in seconds
TriggerLength == TRIGGER_END_S - TRIGGER_START_S

Min(a, b) == IF a < b THEN a ELSE b
Max(a, b) == IF a > b THEN a ELSE b

BounceS == BOUNCETIME_MS \div 1000
NoCleanup == [signum |-> FALSE, ret |-> "", inTry |-> FALSE]
NoRecovery == [tick |-> 0, tried |-> FALSE, stale |-> FALSE]

\* ------------------------------------------------------- the control channel
\* The socket answers only when the player of mpv_process runs and has
\* created the socket file (connect raises FileNotFoundError or
\* ConnectionRefusedError otherwise).
ChannelUp == mpv_process \in alive /\ sockFile = mpv_process

\* Outcomes of one send_mpv_command call that expects no value: TRUE = the
\* command reached the player, FALSE = the call returned None.
SendOutcomes == IF ChannelUp THEN {TRUE, FALSE} ELSE {FALSE}

\* time-pos as the player may report it: its position; at the very start of
\* the file a player may report a position just below 0.
Reported(p) == IF p = 0 THEN {0, -1} ELSE {p}

\* Replies to get_property time-pos: <<kind, value>>.
\*   "None"   send_mpv_command returned None
\*   "nodata" a reply without a data field (error reply): .get('data', 0) = 0
\*   "null"   a reply whose data field is null:           .get('data', 0) = None
\*   "data"   a reply with the position
QueryReplies ==
    IF ChannelUp
    THEN {<<"None", 0>>, <<"nodata", 0>>, <<"null", 0>>}
         \cup {<<"data", p>> : p \in Reported(pos)}
    ELSE {<<"None", 0>>}

\* ------------------------------------------------------------ Init
Init ==
    /\ variant \in {"single", "two"}
    /\ pc = IF variant = "single" THEN "rm_socket" ELSE "setup"
    /\ exc = ""
    /\ exitCode = -1
    /\ gpio = IF variant = "single" THEN "detect" ELSE "none"
    /\ mpv_process = 0
    /\ alive = {}
    /\ nSpawn = 0
    /\ sockFile \in {0, -1}     \* -1: a stale socket file of an earlier run
    /\ pos = 0
    /\ motion_detected_flag = FALSE
    /\ current_state = "IDLE"
    /\ response = "None"
    /\ current_time = 0
    /\ cmds = <<>>
    /\ tick0 = [state |-> "IDLE", flag |-> FALSE]
    /\ motionInIdle = FALSE
    /\ credit = 0
    /\ trigSeeks = 0
    /\ trigTime = 0
    /\ advanced = FALSE
    /\ staleSend = "no"
    /\ cpc = "idle"
    /\ waitLeft = 0
    /\ edge = FALSE
    /\ sinceCall = BounceS + 1
    /\ sleepLeft = 0
    /\ playing = "idle"
    /\ looping = TRUE
    /\ smpRet = "add_event"
    /\ cl = NoCleanup
    /\ fatal = FALSE
    /\ spawnAfterFatal = FALSE
    /\ cleanups = 0
    /\ edgeSinceReturn = FALSE
    /\ cycleFresh = TRUE
    /\ recov = NoRecovery

\* ======================================================================
\* tricktreatmpv.py
\* ======================================================================

\* positions of the main thread inside the while loop (lines 89-115)
LoopPcs == {"query", "test_if", "set_trigger", "seek_trigger", "clear_if", "test_elif",
            "clear_elif", "handle", "rearm", "set_idle", "seek_idle", "sleep"}

\* positions of the main thread inside the finally block (lines 119-125)
FinallyPcs == {"quit", "wait", "gpio_cleanup", "rm_socket_end"}

\* motion_callback, run by the GPIO library's callback thread
motion_callback ==
    /\ variant = "single"
    /\ gpio = "detect"
    /\ exitCode = -1
    /\ motion_detected_flag' = TRUE
    /\ motionInIdle' = (pc \notin FinallyPcs /\ (motionInIdle \/ current_state = "IDLE"))
    /\ credit' = IF pc \notin FinallyPcs THEN Min(credit + 1, MaxCredit) ELSE 0
    /\ UNCHANGED twoVars /\ UNCHANGED playVars /\ UNCHANGED <<variant, pc, exc, exitCode, gpio, playerVars, current_state,
                   response, current_time, cmds, tick0, trigSeeks>>

\* lines 59-61: remove an old socket file
RemoveOldSocket ==
    /\ variant = "single" /\ pc = "rm_socket"
    /\ sockFile' = 0
    /\ pc' = "popen"
    /\ UNCHANGED twoVars /\ UNCHANGED playVars /\ UNCHANGED <<variant, exc, exitCode, gpio, mpv_process, alive, nSpawn, pos,
                   loopVars, histVars>>

\* line 78: Popen either starts the player or raises (mpv not installed);
\* the exception is raised outside the try block: no cleanup, exit code 1
LaunchMpv ==
    /\ variant = "single" /\ pc = "popen"
    /\ \/ /\ nSpawn' = nSpawn + 1
          /\ mpv_process' = nSpawn + 1
          /\ alive' = alive \cup {nSpawn + 1}
          /\ pc' = "startup_sleep"
          /\ UNCHANGED <<exc, exitCode>>
       \/ /\ pc' = "exited"
          /\ exc' = "FileNotFoundError"
          /\ exitCode' = 1
          /\ UNCHANGED <<nSpawn, mpv_process, alive>>
    /\ UNCHANGED twoVars /\ UNCHANGED playVars /\ UNCHANGED <<variant, gpio, sockFile, pos, loopVars, histVars>>

\* lines 81-86: sleep, current_state = 'IDLE', seek to the idle start
InitialSeek ==
    /\ variant = "single" /\ pc = "startup_sleep"
    /\ current_state' = "IDLE"
    /\ \E ok \in SendOutcomes : pos' = IF ok THEN IDLE_START_S ELSE pos
    /\ pc' = "query"
    /\ UNCHANGED twoVars /\ UNCHANGED playVars /\ UNCHANGED <<variant, exc, exitCode, gpio, mpv_process, alive, nSpawn, sockFile,
                   motion_detected_flag, response, current_time, cmds, tick0, histVars>>

\* lines 91-92: query time-pos; current_time = response.get('data', 0) if response else 0
QueryPosition ==
    /\ variant = "single" /\ pc = "query"
    /\ \E r \in QueryReplies :
          /\ response' = r[1]
          /\ current_time' = r[2]
    /\ cmds' = <<>>
    /\ tick0' = [state |-> current_state, flag |-> motion_detected_flag]
    /\ pc' = "test_if"
    /\ UNCHANGED twoVars /\ UNCHANGED playVars /\ UNCHANGED <<variant, exc, exitCode, gpio, playerVars, motion_detected_flag,
                   current_state, histVars>>

\* line 95 without its test of current_state
AcceptMotionAnyState == motion_detected_flag

\* the condition of line 95
AcceptMotion == motion_detected_flag /\ current_state = "IDLE"

\* line 95: if motion_detected_flag and current_state == 'IDLE'
TestIf ==
    /\ variant = "single" /\ pc = "test_if"
    /\ pc' = IF AcceptMotion THEN "set_trigger" ELSE "test_elif"
    /\ UNCHANGED twoVars /\ UNCHANGED playVars /\ UNCHANGED <<variant, exc, exitCode, gpio, playerVars, loopVars, histVars>>

\* line 97: current_state = 'TRIGGER'
SetTrigger ==
    /\ variant = "single" /\ pc = "set_trigger"
    /\ current_state' = "TRIGGER"
    /\ motionInIdle' = FALSE
    /\ credit' = credit - 1
    /\ pc' = "seek_trigger"
    /\ UNCHANGED twoVars /\ trigTime' = 0 /\ UNCHANGED advanced /\ UNCHANGED <<variant, exc, exitCode, gpio, playerVars, motion_detected_flag,
                   response, current_time, cmds, tick0, trigSeeks>>

\* line 98: seek to TRIGGER_START_S
SeekTrigger ==
    /\ variant = "single" /\ pc = "seek_trigger"
    /\ cmds' = Append(cmds, TRIGGER_START_S)
    /\ \E ok \in SendOutcomes : pos' = IF ok THEN TRIGGER_START_S ELSE pos
    /\ trigSeeks' = Min(trigSeeks + 1, 2)
    /\ pc' = "clear_if"
    /\ UNCHANGED twoVars /\ UNCHANGED playVars /\ UNCHANGED <<variant, exc, exitCode, gpio, mpv_process, alive, nSpawn, sockFile,
                   motion_detected_flag, current_state, response, current_time, tick0,
                   motionInIdle, credit>>

\* the value line 99 stores in motion_detected_flag
ConsumedFlag == FALSE

\* line 99: motion_detected_flag = False
ClearIf ==
    /\ variant = "single" /\ pc = "clear_if"
    /\ motion_detected_flag' = ConsumedFlag
    /\ pc' = "handle"
    /\ UNCHANGED twoVars /\ UNCHANGED playVars /\ UNCHANGED <<variant, exc, exitCode, gpio, playerVars, current_state, response,
                   current_time, cmds, tick0, histVars>>

\* line 101: elif motion_detected_flag
TestElif ==
    /\ variant = "single" /\ pc = "test_elif"
    /\ pc' = IF motion_detected_flag THEN "clear_elif" ELSE "handle"
    /\ UNCHANGED twoVars /\ UNCHANGED playVars /\ UNCHANGED <<variant, exc, exitCode, gpio, playerVars, loopVars, histVars>>

\* line 102: motion_detected_flag = False
ClearElif ==
    /\ variant = "single" /\ pc = "clear_elif"
    /\ motion_detected_flag' = FALSE
    /\ pc' = "handle"
    /\ UNCHANGED twoVars /\ UNCHANGED playVars /\ UNCHANGED <<variant, exc, exitCode, gpio, playerVars, current_state, response,
                   current_time, cmds, tick0, histVars>>

\* line 106 with > in place of >=
IdleRearmAfterEnd(t) == t > IDLE_END_S \/ t < IDLE_START_S

\* the condition of line 106
IdleRearm(t) == t >= IDLE_END_S \/ t < IDLE_START_S

\* line 110 with > in place of >=
TriggerDoneAfterEnd(t) == t > TRIGGER_END_S

\* the condition of line 110
TriggerDone(t) == t >= TRIGGER_END_S

\* Leaving the while loop with exception e for the finally block (line 119).
\* The loop's locals and the history of its ticks are dead from here on and
\* are put back to their initial values.
LeaveLoop(e) ==
    /\ pc' = "quit"
    /\ exc' = e
    /\ response' = "None"
    /\ current_time' = 0
    /\ cmds' = <<>>
    /\ tick0' = [state |-> "IDLE", flag |-> FALSE]
    /\ motionInIdle' = FALSE
    /\ credit' = 0
    /\ trigSeeks' = 0
    /\ trigTime' = 0
    /\ advanced' = FALSE
    /\ UNCHANGED twoVars
    /\ UNCHANGED <<variant, exitCode, gpio, playerVars, motion_detected_flag,
                   current_state>>

\* lines 105-110: the tests of "Handle States"; comparing None with an int
\* raises TypeError, which leaves the loop through the finally block
HandleStates ==
    /\ variant = "single" /\ pc = "handle"
    /\ IF response = "null"
       THEN LeaveLoop("TypeError")
       ELSE /\ pc' = IF current_state = "IDLE"
                     THEN (IF IdleRearm(current_time) THEN "rearm" ELSE "sleep")
                     ELSE (IF TriggerDone(current_time) THEN "set_idle" ELSE "sleep")
            /\ UNCHANGED twoVars
            /\ UNCHANGED <<variant, exc, exitCode, gpio, playerVars, loopVars, histVars,
                           playVars>>

\* line 107: seek to IDLE_START_S (re-arm the idle loop)
Rearm ==
    /\ variant = "single" /\ pc = "rearm"
    /\ cmds' = Append(cmds, IDLE_START_S)
    /\ \E ok \in SendOutcomes : pos' = IF ok THEN IDLE_START_S ELSE pos
    /\ pc' = "sleep"
    /\ UNCHANGED twoVars /\ UNCHANGED playVars /\ UNCHANGED <<variant, exc, exitCode, gpio, mpv_process, alive, nSpawn, sockFile,
                   motion_detected_flag, current_state, response, current_time, tick0,
                   histVars>>

\* line 112: current_state = 'IDLE'
SetIdle ==
    /\ variant = "single" /\ pc = "set_idle"
    /\ current_state' = "IDLE"
    /\ motionInIdle' = FALSE
    /\ pc' = "seek_idle"
    /\ UNCHANGED twoVars /\ trigTime' = 0 /\ UNCHANGED advanced /\ UNCHANGED <<variant, exc, exitCode, gpio, playerVars, motion_detected_flag,
                   response, current_time, cmds, tick0, credit, trigSeeks>>

\* line 113: seek to IDLE_START_S (trigger finished)
SeekIdle ==
    /\ variant = "single" /\ pc = "seek_idle"
    /\ cmds' = Append(cmds, IDLE_START_S)
    /\ \E ok \in SendOutcomes : pos' = IF ok THEN IDLE_START_S ELSE pos
    /\ trigSeeks' = 0
    /\ pc' = "sleep"
    /\ UNCHANGED twoVars /\ UNCHANGED playVars /\ UNCHANGED <<variant, exc, exitCode, gpio, mpv_process, alive, nSpawn, sockFile,
                   motion_detected_flag, current_state, response, current_time, tick0,
                   motionInIdle, credit>>

\* line 115: time.sleep(0.02), then the next pass of the loop
Sleep ==
    /\ variant = "single" /\ pc = "sleep"
    /\ pc' = "query"
    /\ UNCHANGED twoVars /\ advanced' = FALSE /\ UNCHANGED trigTime /\ UNCHANGED <<variant, exc, exitCode, gpio, playerVars, loopVars, histVars>>

\* line 117: KeyboardInterrupt raised inside the try block
KeyboardInterrupt ==
    /\ variant = "single" /\ pc \in LoopPcs
    /\ LeaveLoop("KeyboardInterrupt")

\* line 121: send quit; a player that receives it exits and unlinks its socket
SendQuit ==
    /\ variant = "single" /\ pc = "quit"
    /\ \E ok \in SendOutcomes :
          /\ alive' = IF ok THEN alive \ {mpv_process} ELSE alive
          /\ sockFile' = IF ok THEN 0 ELSE sockFile
    /\ pc' = "wait"
    /\ UNCHANGED twoVars /\ UNCHANGED playVars /\ UNCHANGED <<variant, exc, exitCode, gpio, mpv_process, nSpawn, pos, loopVars,
                   histVars>>

\* line 122: mpv_process.wait() returns once the player has exited
WaitPlayer ==
    /\ variant = "single" /\ pc = "wait"
    /\ mpv_process \notin alive
    /\ pc' = "gpio_cleanup"
    /\ UNCHANGED twoVars /\ UNCHANGED playVars /\ UNCHANGED <<variant, exc, exitCode, gpio, playerVars, loopVars, histVars>>

\* line 123: GPIO.cleanup()
GpioCleanup ==
    /\ variant = "single" /\ pc = "gpio_cleanup"
    /\ gpio' = "clean"
    /\ pc' = "rm_socket_end"
    /\ UNCHANGED twoVars /\ UNCHANGED playVars /\ UNCHANGED <<variant, exc, exitCode, playerVars, loopVars, histVars>>

\* lines 124-125, then the end of main: KeyboardInterrupt was caught (exit
\* code 0), any other exception propagates (exit code 1)
RemoveSocketAndExit ==
    /\ variant = "single" /\ pc = "rm_socket_end"
    /\ sockFile' = 0
    /\ pc' = "exited"
    /\ exitCode' = IF exc = "KeyboardInterrupt" THEN 0 ELSE 1
    /\ UNCHANGED twoVars /\ UNCHANGED playVars /\ UNCHANGED <<variant, exc, gpio, mpv_process, alive, nSpawn, pos, loopVars,
                   histVars>>

\* ------------------------------------------------------------ the player
\* the player creates its socket file some time after it was started
PlayerCreatesSocket ==
    /\ variant = "single"
    /\ mpv_process \in alive /\ sockFile # mpv_process
    /\ pc \in LoopPcs \cup {"startup_sleep"}
    /\ sockFile' = mpv_process
    /\ UNCHANGED twoVars /\ UNCHANGED playVars /\ UNCHANGED <<variant, pc, exc, exitCode, gpio, mpv_process, alive, nSpawn, pos,
                   loopVars, histVars>>

\* one second of playback; --loop-file=inf restarts the file at its end
PlayerAdvance ==
    /\ variant = "single" /\ pc = "sleep"
    /\ mpv_process \in alive
    /\ ~advanced
    /\ advanced' = TRUE
    /\ trigTime' = IF current_state = "TRIGGER"
                   THEN Min(trigTime + 1, TriggerLength + 1)
                   ELSE trigTime
    /\ pos' = IF pos + 1 >= VideoLen THEN 0 ELSE pos + 1
    /\ UNCHANGED twoVars /\ UNCHANGED <<variant, pc, exc, exitCode, gpio, mpv_process, alive, nSpawn,
                   sockFile, loopVars, histVars>>

\* the player exits on its own (crash, window closed); its socket file stays
PlayerDies ==
    /\ variant = "single"
    /\ pc \in LoopPcs \cup {"wait"}
    /\ mpv_process \in alive
    /\ alive' = alive \ {mpv_process}
    /\ UNCHANGED twoVars /\ UNCHANGED playVars /\ UNCHANGED <<variant, pc, exc, exitCode, gpio, mpv_process, nSpawn, sockFile, pos,
                   loopVars, histVars>>

NextSingle ==
    \/ motion_callback
    \/ RemoveOldSocket \/ LaunchMpv \/ InitialSeek
    \/ QueryPosition \/ TestIf \/ SetTrigger \/ SeekTrigger \/ ClearIf
    \/ TestElif \/ ClearElif \/ HandleStates \/ Rearm \/ SetIdle \/ SeekIdle \/ Sleep
    \/ KeyboardInterrupt \/ SendQuit \/ WaitPlayer \/ GpioCleanup \/ RemoveSocketAndExit
    \/ PlayerCreatesSocket \/ PlayerAdvance \/ PlayerDies

\* ======================================================================
\* trickrtreat.py
\* ======================================================================
\* Time is counted in seconds.  Statements take no time: a second passes
\* (action Second) only while the main thread is in a sleep or a timed wait
\* and the callback thread is in its sleep or waits for an edge.

CleanupPcs == {"cl_check", "cl_kill", "cl_wait", "cl_gpio", "cl_sock", "cl_end"}
StartPcs == {"smp_check", "smp_rm", "smp_popen", "smp_sleep"}

\* the main thread is inside the try block of main (lines 213-219)
InTry == pc \in {"poll", "loop_sleep"} \/ (pc \in StartPcs /\ smpRet = "loop_sleep")

\* mpv_process and mpv_process.poll() is None (lines 96, 156, 175)
ProcessRunning == mpv_process # 0 /\ mpv_process \in alive

\* One send_mpv_command call of trickrtreat.py: os.open of the socket path
\* raises FileNotFoundError when the file is absent; the write reaches a
\* player only if the file is the socket of a running player, and may fail
\* then too (BlockingIOError, OSError).  TRUE = delivered.
SendOutcomesTwo == IF sockFile \in alive THEN {TRUE, FALSE} ELSE {FALSE}

\* lines 197-203: signal handlers, setup_gpio, the warm-up sleep
Setup ==
    /\ variant = "two" /\ pc = "setup"
    /\ gpio' = "setup"
    /\ smpRet' = "add_event"
    /\ pc' = "smp_check"
    /\ UNCHANGED <<variant, exc, exitCode, mpv_process, alive, nSpawn, sockFile,
                   singleVars, cpc, waitLeft, edge, sinceCall, sleepLeft, playing,
                   looping, cl, fatal, spawnAfterFatal, cleanups, edgeSinceReturn,
                   cycleFresh, recov>>
    /\ UNCHANGED staleSend

\* lines 96-98: return if the player is already running
StartCheck ==
    /\ variant = "two" /\ pc = "smp_check"
    /\ pc' = IF ProcessRunning THEN smpRet ELSE "smp_rm"
    /\ sleepLeft' = IF ProcessRunning /\ smpRet = "loop_sleep" THEN LOOP_SLEEP_S ELSE 0
    /\ UNCHANGED <<variant, exc, exitCode, gpio, mpv_process, alive, nSpawn, sockFile,
                   singleVars, cpc, waitLeft, edge, sinceCall, playing, looping, smpRet,
                   cl, fatal, spawnAfterFatal, cleanups, edgeSinceReturn, cycleFresh,
                   recov>>
    /\ UNCHANGED staleSend

\* lines 101-104 left out: the old socket file stays
StartKeepSocket ==
    /\ variant = "two" /\ pc = "smp_rm"
    /\ pc' = "smp_popen"
    /\ UNCHANGED <<variant, exc, exitCode, gpio, mpv_process, alive, nSpawn, sockFile,
                   singleVars, twoVars>>

\* lines 101-104: remove an old socket file
StartRemoveSocket ==
    /\ variant = "two" /\ pc = "smp_rm"
    /\ sockFile' = 0
    /\ pc' = "smp_popen"
    /\ UNCHANGED <<variant, exc, exitCode, gpio, mpv_process, alive, nSpawn, singleVars,
                   twoVars>>

\* lines 107-119 with --loop=inf left out of line 112
StartPopenNoLoop ==
    /\ variant = "two" /\ pc = "smp_popen"
    /\ spawnAfterFatal' = (spawnAfterFatal \/ fatal)
    /\ recov' = [recov EXCEPT !.tried = TRUE]
    /\ \/ /\ nSpawn < MaxSpawns
          /\ nSpawn' = nSpawn + 1
          /\ mpv_process' = nSpawn + 1
          /\ alive' = alive \cup {nSpawn + 1}
          /\ playing' = "idle"
          /\ looping' = FALSE
          /\ pc' = "smp_sleep"
          /\ sleepLeft' = START_SLEEP_S
          /\ UNCHANGED <<cl, fatal>>
       \/ /\ fatal' = TRUE
          /\ cl' = [signum |-> FALSE, ret |-> "smp_sleep", inTry |-> FALSE]
          /\ pc' = "cl_check"
          /\ UNCHANGED <<nSpawn, mpv_process, alive, playing, looping, sleepLeft>>
    /\ UNCHANGED <<variant, exc, exitCode, gpio, sockFile, singleVars, cpc, waitLeft,
                   edge, sinceCall, smpRet, cleanups, edgeSinceReturn, cycleFresh>>
    /\ UNCHANGED staleSend

\* lines 107-119: Popen starts a player that loops idle.mp4, or raises; the
\* except clauses call cleanup_and_exit(), which returns (signum is None)
StartPopen ==
    /\ variant = "two" /\ pc = "smp_popen"
    /\ spawnAfterFatal' = (spawnAfterFatal \/ fatal)
    /\ recov' = [recov EXCEPT !.tried = TRUE]
    /\ \/ /\ nSpawn < MaxSpawns
          /\ nSpawn' = nSpawn + 1
          /\ mpv_process' = nSpawn + 1
          /\ alive' = alive \cup {nSpawn + 1}
          /\ playing' = "idle"
          /\ looping' = TRUE
          /\ pc' = "smp_sleep"
          /\ sleepLeft' = START_SLEEP_S
          /\ UNCHANGED <<cl, fatal>>
       \/ /\ fatal' = TRUE
          /\ cl' = [signum |-> FALSE, ret |-> "smp_sleep", inTry |-> FALSE]
          /\ pc' = "cl_check"
          /\ UNCHANGED <<nSpawn, mpv_process, alive, playing, looping, sleepLeft>>
    /\ UNCHANGED <<variant, exc, exitCode, gpio, sockFile, singleVars, cpc, waitLeft,
                   edge, sinceCall, smpRet, cleanups, edgeSinceReturn, cycleFresh>>
    /\ UNCHANGED staleSend

\* line 122: time.sleep(2), then return to the caller
StartSleep ==
    /\ variant = "two" /\ pc = "smp_sleep"
    /\ sleepLeft = 0
    /\ pc' = smpRet
    /\ sleepLeft' = IF smpRet = "loop_sleep" THEN LOOP_SLEEP_S ELSE 0
    /\ UNCHANGED <<variant, exc, exitCode, gpio, mpv_process, alive, nSpawn, sockFile,
                   singleVars, cpc, waitLeft, edge, sinceCall, playing, looping, smpRet,
                   cl, fatal, spawnAfterFatal, cleanups, edgeSinceReturn, cycleFresh,
                   recov>>
    /\ UNCHANGED staleSend

start_mpv_process == StartCheck \/ StartRemoveSocket \/ StartPopen \/ StartSleep

\* line 209: GPIO.add_event_detect.  After a GPIO.cleanup() (the fatal path
\* of the first start_mpv_process) the pin is no longer set up and the call
\* raises RuntimeError outside the try block: exit code 1.
AddEventDetect ==
    /\ variant = "two" /\ pc = "add_event"
    /\ IF gpio = "setup"
       THEN gpio' = "detect" /\ pc' = "poll" /\ UNCHANGED <<exc, exitCode>>
       ELSE gpio' = gpio /\ pc' = "exited" /\ exc' = "RuntimeError" /\ exitCode' = 1
    /\ UNCHANGED <<variant, mpv_process, alive, nSpawn, sockFile, singleVars, twoVars>>

\* the callback thread is inside a trigger cycle: it has passed the test of
\* line 156 and has not returned from switch_to_idle
InCycle == cpc \in {"trig_loop", "trig_load", "wait", "idle_loop"}

\* the player that passed the test of line 156 exits during the cycle
DiedInCycle == IF InCycle /\ staleSend = "no" THEN "died" ELSE staleSend

\* the history of the polls that follow the observation of a dead player:
\* tick 1 is the poll that saw it (tick T), tick 2 the next poll (tick T+1);
\* stale: the trigger cycle that ran when the death was seen still runs
PollHistory(dead) ==
    IF dead
    THEN [tick |-> 1, tried |-> FALSE, stale |-> InCycle]
    ELSE IF recov.tick = 1
         THEN [recov EXCEPT !.tick = 2]
         ELSE NoRecovery

\* lines 214-218: restart the player if it has stopped
Poll ==
    /\ variant = "two" /\ pc = "poll"
    /\ IF mpv_process \notin alive
       THEN pc' = "smp_check" /\ smpRet' = "loop_sleep" /\ sleepLeft' = 0
       ELSE pc' = "loop_sleep" /\ smpRet' = smpRet /\ sleepLeft' = LOOP_SLEEP_S
    /\ recov' = PollHistory(mpv_process \notin alive)
    /\ UNCHANGED <<variant, exc, exitCode, gpio, mpv_process, alive, nSpawn, sockFile,
                   singleVars, cpc, waitLeft, edge, sinceCall, playing, looping, cl,
                   fatal, spawnAfterFatal, cleanups, edgeSinceReturn, cycleFresh>>
    /\ UNCHANGED staleSend

\* line 219: time.sleep(1)
LoopSleep ==
    /\ variant = "two" /\ pc = "loop_sleep"
    /\ sleepLeft = 0
    /\ pc' = "poll"
    /\ UNCHANGED <<variant, exc, exitCode, gpio, mpv_process, alive, nSpawn, sockFile,
                   singleVars, twoVars>>

\* SIGINT or SIGTERM: the handler cleanup_and_exit(signum, frame) runs in the
\* main thread wherever it is
Signal ==
    /\ variant = "two" /\ exitCode = -1
    /\ pc \notin CleanupPcs
    /\ cl' = [signum |-> TRUE, ret |-> "", inTry |-> InTry]
    /\ pc' = "cl_check"
    /\ UNCHANGED <<variant, exc, exitCode, gpio, mpv_process, alive, nSpawn, sockFile,
                   singleVars, cpc, waitLeft, edge, sinceCall, sleepLeft, playing,
                   looping, smpRet, fatal, spawnAfterFatal, cleanups, edgeSinceReturn,
                   cycleFresh, recov>>
    /\ UNCHANGED staleSend

\* line 175: if mpv_process and mpv_process.poll() is None
CleanupCheck ==
    /\ variant = "two" /\ pc = "cl_check"
    /\ pc' = IF ProcessRunning THEN "cl_kill" ELSE "cl_gpio"
    /\ UNCHANGED <<variant, exc, exitCode, gpio, mpv_process, alive, nSpawn, sockFile,
                   singleVars, twoVars>>

\* line 179: SIGTERM to the player's process group.  A player that handles
\* it exits and unlinks its socket; a player that is hung does not.
CleanupKill ==
    /\ variant = "two" /\ pc = "cl_kill"
    /\ \E exits \in BOOLEAN :
          /\ alive' = IF exits THEN alive \ {mpv_process} ELSE alive
          /\ sockFile' = IF exits /\ sockFile = mpv_process THEN 0 ELSE sockFile
          /\ staleSend' = IF exits THEN DiedInCycle ELSE staleSend
    /\ pc' = "cl_wait"
    /\ sleepLeft' = WAIT_TIMEOUT_S
    /\ UNCHANGED <<variant, exc, exitCode, gpio, mpv_process, nSpawn, singleVars, cpc,
                   waitLeft, edge, sinceCall, playing, looping, smpRet, cl, fatal,
                   spawnAfterFatal, cleanups, edgeSinceReturn, cycleFresh, recov>>

\* lines 180-182: wait(timeout=5) returns when the player has exited, or
\* raises TimeoutExpired when the 5 seconds are over, which "except
\* Exception: pass" swallows: the player is left as it is
CleanupWait ==
    /\ variant = "two" /\ pc = "cl_wait"
    /\ mpv_process \notin alive \/ sleepLeft = 0
    /\ pc' = "cl_gpio"
    /\ sleepLeft' = 0
    /\ UNCHANGED <<variant, exc, exitCode, gpio, mpv_process, alive, nSpawn, sockFile,
                   singleVars, cpc, waitLeft, edge, sinceCall, playing, looping, smpRet,
                   cl, fatal, spawnAfterFatal, cleanups, edgeSinceReturn, cycleFresh,
                   recov>>
    /\ UNCHANGED staleSend

\* line 185: GPIO.cleanup() also removes the edge detection
CleanupGpio ==
    /\ variant = "two" /\ pc = "cl_gpio"
    /\ gpio' = "clean"
    /\ pc' = "cl_sock"
    /\ UNCHANGED <<variant, exc, exitCode, mpv_process, alive, nSpawn, sockFile,
                   singleVars, twoVars>>

\* lines 188-189: remove the socket file
CleanupSocket ==
    /\ variant = "two" /\ pc = "cl_sock"
    /\ sockFile' = 0
    /\ pc' = "cl_end"
    /\ UNCHANGED <<variant, exc, exitCode, gpio, mpv_process, alive, nSpawn, singleVars,
                   twoVars>>

\* lines 191-193 and 223-224: with a signum, exit(0) raises SystemExit; inside
\* main's try block the finally clause first calls cleanup_and_exit() again.
\* Without a signum the call returns to its caller (the end of main after the
\* finally clause, or start_mpv_process).
CleanupEnd ==
    /\ variant = "two" /\ pc = "cl_end"
    /\ cleanups' = Min(cleanups + 1, 2)
    /\ IF cl.signum
       THEN IF cl.inTry
            THEN /\ cl' = [signum |-> FALSE, ret |-> "exited", inTry |-> FALSE]
                 /\ pc' = "cl_check"
                 /\ exc' = "SystemExit"
                 /\ UNCHANGED <<exitCode, sleepLeft>>
            ELSE /\ pc' = "exited"
                 /\ exc' = "SystemExit"
                 /\ exitCode' = 0
                 /\ UNCHANGED <<cl, sleepLeft>>
       ELSE /\ pc' = cl.ret
            /\ cl' = NoCleanup
            /\ exitCode' = IF cl.ret = "exited" THEN 0 ELSE exitCode
            /\ sleepLeft' = IF cl.ret = "smp_sleep" THEN START_SLEEP_S ELSE sleepLeft
            /\ UNCHANGED exc
    /\ UNCHANGED <<variant, gpio, mpv_process, alive, nSpawn, sockFile, singleVars, cpc,
                   waitLeft, edge, sinceCall, playing, looping, smpRet, fatal,
                   spawnAfterFatal, edgeSinceReturn, cycleFresh, recov>>
    /\ UNCHANGED staleSend

cleanup_and_exit ==
    CleanupCheck \/ CleanupKill \/ CleanupWait \/ CleanupGpio \/ CleanupSocket
    \/ CleanupEnd

\* ------------------------------------------------ the GPIO callback thread
\* The library runs the callbacks of a pin one after the other in one thread.
\* An edge that comes while no callback runs starts motion_detected_callback
\* unless the last start is less than bouncetime ago; an edge that comes while
\* the callback runs is latched and looked at when the callback has returned.
BounceOver == sinceCall > BounceS

\* a rising edge of the PIR pin
RisingEdge ==
    /\ variant = "two" /\ exitCode = -1 /\ gpio = "detect"
    /\ IF cpc = "idle"
       THEN /\ BounceOver
            /\ cpc' = "cb_check"
            /\ sinceCall' = 0
            /\ cycleFresh' = TRUE
            /\ edgeSinceReturn' = TRUE
            /\ edge' = edge
       ELSE /\ ~edge
            /\ edge' = TRUE
            /\ UNCHANGED <<cpc, sinceCall, cycleFresh, edgeSinceReturn>>
    /\ UNCHANGED <<sharedVars, singleVars, waitLeft, sleepLeft, playing, looping,
                   smpRet, cl, fatal, spawnAfterFatal, cleanups, recov>>
    /\ UNCHANGED staleSend

\* what the callback thread does with an edge latched during a callback,
\* once the callback has returned: TRUE = it runs the callback again
RunLatched == BounceOver

\* the callback has returned and an edge is latched
DispatchLatched ==
    /\ variant = "two" /\ exitCode = -1
    /\ cpc = "idle" /\ edge
    /\ edge' = FALSE
    /\ IF RunLatched /\ gpio = "detect"
       THEN /\ cpc' = "cb_check"
            /\ sinceCall' = 0
            /\ cycleFresh' = edgeSinceReturn
       ELSE UNCHANGED <<cpc, sinceCall, cycleFresh>>
    /\ UNCHANGED <<sharedVars, singleVars, waitLeft, sleepLeft, playing, looping,
                   smpRet, cl, fatal, spawnAfterFatal, cleanups, edgeSinceReturn, recov>>
    /\ UNCHANGED staleSend

\* a command of the cycle is delivered after that player has exited
SentInCycle(ok) == IF ok /\ staleSend = "died" THEN "sent" ELSE staleSend

\* line 156: if mpv_process and mpv_process.poll() is None
CallbackCheck ==
    /\ variant = "two" /\ exitCode = -1 /\ cpc = "cb_check"
    /\ cpc' = IF ProcessRunning THEN "trig_loop" ELSE "idle"
    /\ edgeSinceReturn' = IF ProcessRunning THEN edgeSinceReturn ELSE FALSE
    /\ recov' = IF ProcessRunning THEN recov ELSE [recov EXCEPT !.stale = FALSE]
    /\ UNCHANGED <<sharedVars, singleVars, waitLeft, edge, sinceCall, sleepLeft,
                   playing, looping, smpRet, cl, fatal, spawnAfterFatal, cleanups,
                   cycleFresh>>
    /\ staleSend' = "no"

\* line 143: set_property loop-file no
TriggerLoopOff ==
    /\ variant = "two" /\ exitCode = -1 /\ cpc = "trig_loop"
    /\ \E ok \in SendOutcomesTwo :
          /\ looping' = IF ok THEN FALSE ELSE looping
          /\ staleSend' = SentInCycle(ok)
    /\ cpc' = "trig_load"
    /\ UNCHANGED <<sharedVars, singleVars, waitLeft, edge, sinceCall, sleepLeft,
                   playing, smpRet, cl, fatal, spawnAfterFatal, cleanups,
                   edgeSinceReturn, cycleFresh, recov>>

\* lines 146 and 162-163: loadfile trigger.mp4, then time.sleep(26)
TriggerLoad ==
    /\ variant = "two" /\ exitCode = -1 /\ cpc = "trig_load"
    /\ \E ok \in SendOutcomesTwo :
          /\ playing' = IF ok THEN "trigger" ELSE playing
          /\ staleSend' = SentInCycle(ok)
    /\ cpc' = "wait"
    /\ waitLeft' = TRIGGER_DURATION_SECONDS
    /\ UNCHANGED <<sharedVars, singleVars, edge, sinceCall, sleepLeft, looping, smpRet,
                   cl, fatal, spawnAfterFatal, cleanups, edgeSinceReturn, cycleFresh,
                   recov>>

switch_to_trigger == TriggerLoopOff \/ TriggerLoad

\* line 163 is over, line 132: loadfile idle.mp4
IdleLoad ==
    /\ variant = "two" /\ exitCode = -1 /\ cpc = "wait"
    /\ waitLeft = 0
    /\ \E ok \in SendOutcomesTwo :
          /\ playing' = IF ok THEN "idle" ELSE playing
          /\ staleSend' = SentInCycle(ok)
    /\ cpc' = "idle_loop"
    /\ UNCHANGED <<sharedVars, singleVars, waitLeft, edge, sinceCall, sleepLeft,
                   looping, smpRet, cl, fatal, spawnAfterFatal, cleanups,
                   edgeSinceReturn, cycleFresh, recov>>

\* line 135: set_property loop-file inf; the callback returns
IdleLoopOn ==
    /\ variant = "two" /\ exitCode = -1 /\ cpc = "idle_loop"
    /\ \E ok \in SendOutcomesTwo :
          /\ looping' = IF ok THEN TRUE ELSE looping
          /\ staleSend' = IF SentInCycle(ok) = "sent" THEN "sent" ELSE "no"
    /\ cpc' = "idle"
    /\ edgeSinceReturn' = FALSE
    /\ recov' = [recov EXCEPT !.stale = FALSE]
    /\ UNCHANGED <<sharedVars, singleVars, waitLeft, edge, sinceCall, sleepLeft,
                   playing, smpRet, cl, fatal, spawnAfterFatal, cleanups, cycleFresh>>

switch_to_idle == IdleLoad \/ IdleLoopOn

motion_detected_callback == CallbackCheck \/ switch_to_trigger \/ switch_to_idle

\* ------------------------------------------------------------ the player
PlayerCreatesSocketTwo ==
    /\ variant = "two" /\ exitCode = -1
    /\ ProcessRunning /\ sockFile = 0
    /\ pc \in {"smp_sleep", "poll", "loop_sleep"}
    /\ sockFile' = mpv_process
    /\ UNCHANGED <<variant, pc, exc, exitCode, gpio, mpv_process, alive, nSpawn,
                   singleVars, twoVars>>

\* the player exits on its own; its socket file stays
PlayerDiesTwo ==
    /\ variant = "two" /\ exitCode = -1
    /\ ProcessRunning
    /\ nSpawn < MaxSpawns
    /\ alive' = alive \ {mpv_process}
    /\ staleSend' = DiedInCycle
    /\ UNCHANGED <<variant, pc, exc, exitCode, gpio, mpv_process, nSpawn, sockFile,
                   singleVars, cpc, waitLeft, edge, sinceCall, sleepLeft, playing,
                   looping, smpRet, cl, fatal, spawnAfterFatal, cleanups,
                   edgeSinceReturn, cycleFresh, recov>>

\* ------------------------------------------------------------ time
MainSleeps ==
    \/ pc \in {"smp_sleep", "loop_sleep"} /\ sleepLeft > 0
    \/ pc = "cl_wait" /\ sleepLeft > 0 /\ mpv_process \in alive
CallbackSleeps == (cpc = "idle" /\ ~edge) \/ (cpc = "wait" /\ waitLeft > 0)

\* one second passes
Second ==
    /\ variant = "two" /\ exitCode = -1
    /\ MainSleeps /\ CallbackSleeps
    /\ sleepLeft' = Max(sleepLeft - 1, 0)
    /\ waitLeft' = Max(waitLeft - 1, 0)
    /\ sinceCall' = Min(sinceCall + 1, BounceS + 1)
    /\ UNCHANGED <<sharedVars, singleVars, cpc, edge, playing, looping, smpRet, cl,
                   fatal, spawnAfterFatal, cleanups, edgeSinceReturn, cycleFresh, recov>>
    /\ UNCHANGED staleSend

NextTwo ==
    \/ Setup \/ start_mpv_process \/ AddEventDetect \/ Poll \/ LoopSleep
    \/ Signal \/ cleanup_and_exit
    \/ RisingEdge \/ DispatchLatched \/ motion_detected_callback
    \/ PlayerCreatesSocketTwo \/ PlayerDiesTwo \/ Second

Next == NextSingle \/ NextTwo

Spec == Init /\ [][Next]_vars

\* ======================================================================
\* Properties
\* ======================================================================
\* a tick of tricktreatmpv.py has run to its time.sleep (line 115)
TickDone == variant = "single" /\ pc = "sleep"

\* the tick has taken the branch of line 95 (it issued seek(trigger_start))
TickAccepted == Len(cmds) >= 1 /\ cmds[1] = TRIGGER_START_S

\* C1: a motion notification that arrives while current_state = TRIGGER is
\* dropped at whatever point of the tick it arrives: TRIGGER is entered from
\* IDLE only if a notification has arrived since the state became IDLE.
C1_TriggerOnlyOnMotionInIdle ==
    [][(variant = "single" /\ current_state = "IDLE" /\ current_state' = "TRIGGER")
         => motionInIdle]_vars

\* C2: TRIGGER is entered at most once per accepted motion event: there are
\* never more IDLE->TRIGGER transitions than notifications, however many
\* notifications were coalesced into the flag; seek(trigger_start) is issued
\* only as the first command of a tick that began in IDLE and at most once in
\* a tick; and between two seek(trigger_start) there is the seek(idle_start)
\* of a TRIGGER->IDLE transition.
C2_OneTriggerPerMotion ==
    variant = "single" =>
        /\ credit >= 0
        /\ trigSeeks <= 1
        /\ \A i \in 1..Len(cmds) :
              cmds[i] = TRIGGER_START_S => (i = 1 /\ tick0.state = "IDLE")
        /\ (pc \in {"seek_trigger", "clear_if"} => current_state = "TRIGGER")

\* C2 witness: several notifications were coalesced into one transition
\* (credit is left over) and the tick that made it is complete.
C2_Witness ==
    /\ TickDone /\ current_state = "TRIGGER"
    /\ cmds = <<TRIGGER_START_S>>
    /\ trigSeeks = 1 /\ credit >= 1

\* C3: notifications that arrive during the callback's wait are dropped, so
\* a trigger cycle of trickrtreat.py (switch_to_trigger, wait, switch_to_idle)
\* only runs when an edge has arrived after the previous callback returned.
C3_NoCycleFromEdgeDuringWait ==
    (variant = "two" /\ InCycle) => cycleFresh

\* C4: a tick whose position query returned None issues no command and
\* leaves current_state as it was when the tick began.
C4_FailedQueryChangesNothing ==
    (variant = "single" /\ pc \in LoopPcs \ {"query"} /\ response = "None")
        => (cmds = <<>> /\ current_state = tick0.state)

\* C5: a tick that begins in IDLE with motion pending and observes a position
\* issues exactly seek(trigger_start) and ends in TRIGGER, whatever the
\* position is.
C5_PendingInIdleOnlySeeksTrigger ==
    (TickDone /\ tick0.state = "IDLE" /\ tick0.flag /\ response = "data")
        => (cmds = <<TRIGGER_START_S>> /\ current_state = "TRIGGER")

\* C6: no notification is lost between the loop's tests of the flag and its
\* clearing: a notification that arrived while current_state = IDLE stays
\* pending until the IDLE->TRIGGER transition it leads to.
C6_NoLostNotification ==
    (variant = "single" /\ motionInIdle) => motion_detected_flag

\* C7: one tick after the main loop saw the player dead, a relaunch has been
\* attempted and no trigger cycle from before the death is still running
\* (the callback thread is free to take the next motion event).
C7_RecoveredByNextTick ==
    (variant = "two" /\ recov.tick = 2) => (recov.tried /\ ~recov.stale)

\* C8: once Popen has raised in start_mpv_process no further launch is
\* attempted, and the process ends with a non-zero exit code; a shutdown by
\* signal ends with exit code 0.
C8_FatalLaunchEndsTheProgram ==
    variant = "two" =>
        /\ ~spawnAfterFatal
        /\ (pc = "exited" /\ fatal /\ exc # "SystemExit") => exitCode # 0
        /\ (pc = "exited" /\ exc = "SystemExit") => exitCode = 0

\* C9: when the cleanup has finished and the program has ended, the player
\* process is not running.
C9_NoPlayerAfterCleanup ==
    (pc = "exited" /\ gpio = "clean") => alive = {}

\* C10: a tick in IDLE that accepts no motion and observes position p issues
\* seek(idle_start) if and only if p >= idle_end or p < idle_start, issues
\* nothing else, and stays in IDLE.
C10_IdleRearmClosedOpen ==
    (TickDone /\ tick0.state = "IDLE" /\ ~TickAccepted /\ response = "data")
        => /\ current_state = "IDLE"
           /\ cmds = IF current_time >= IDLE_END_S \/ current_time < IDLE_START_S
                     THEN <<IDLE_START_S>>
                     ELSE <<>>

\* C10 witness: the re-arm at position idle_end exactly
C10_Witness ==
    /\ TickDone /\ tick0.state = "IDLE" /\ ~TickAccepted /\ response = "data"
    /\ current_time = IDLE_END_S
    /\ cmds = <<IDLE_START_S>>

\* C11: a tick that begins in TRIGGER and observes position p issues exactly
\* seek(idle_start) and ends in IDLE when p >= trigger_end, whether or not
\* motion is pending, and issues nothing and stays in TRIGGER when
\* p < trigger_end; it never issues seek(trigger_start).
C11_TriggerTick ==
    (TickDone /\ tick0.state = "TRIGGER" /\ response = "data")
        => IF current_time >= TRIGGER_END_S
           THEN cmds = <<IDLE_START_S>> /\ current_state = "IDLE"
           ELSE cmds = <<>> /\ current_state = "TRIGGER"

\* C11 witness: the return to IDLE at position trigger_end with motion pending
\* when the tick began
C11_Witness ==
    /\ TickDone /\ tick0.state = "TRIGGER" /\ tick0.flag /\ response = "data"
    /\ current_time = TRIGGER_END_S
    /\ cmds = <<IDLE_START_S>> /\ current_state = "IDLE"

\* C12: the player time spent in TRIGGER for one accepted motion event does
\* not exceed one playback of the trigger segment, trigger_end - trigger_start.
C12_TriggerAtMostOnePlayback ==
    variant = "single" => trigTime <= TriggerLength

\* C13: no control-socket file exists at any spawn of the player, the first
\* one and every relaunch, and none exists once the program has ended after
\* its cleanup.
C13_NoStaleSocket ==
    /\ [][nSpawn' # nSpawn => sockFile = 0]_vars
    /\ []((pc = "exited" /\ gpio = "clean") => sockFile = 0)

\* C13 witness: a relaunch of the player by the main loop
C13_Witness ==
    /\ variant = "two" /\ nSpawn = 2 /\ mpv_process \in alive
    /\ pc = "smp_sleep" /\ smpRet = "loop_sleep" /\ sockFile = 0

\* C14: every way the program ends has run the cleanup: the GPIO is released
\* and the control-socket file is removed.
C14_EveryExitCleansUp ==
    pc = "exited" => gpio = "clean" /\ sockFile = 0

\* C15: no failure of the control channel ends the polling loop: the loop of
\* tricktreatmpv.py is left only by KeyboardInterrupt.
C15_ChannelFailureKeepsLoop ==
    (variant = "single" /\ pc \in FinallyPcs) => exc = "KeyboardInterrupt"

\* C16: a tick that begins in TRIGGER with the channel answering and the
\* player before the trigger segment issues a command that brings the player
\* to the trigger segment.
C16_DroppedTriggerSeekSuperseded ==
    (TickDone /\ tick0.state = "TRIGGER" /\ response = "data"
        /\ current_time < TRIGGER_START_S)
        => cmds # <<>>

\* C17: the interrupt path never goes further than noting the motion: the
\* callback thread sends no command to the player and does not wait.
C17_CallbackOnlySignals ==
    cpc \in {"idle", "cb_check"}

\* C18: in trickrtreat.py at most one player process is alive at any time,
\* start_mpv_process spawns only when no player is running, and every spawn
\* starts the player on the idle video with looping on.
C18_AtMostOnePlayer ==
    /\ [](variant = "two" => Cardinality(alive) <= 1 /\ alive \subseteq {mpv_process})
    /\ [][(variant = "two" /\ nSpawn' # nSpawn)
            => /\ ~ProcessRunning
               /\ alive' = {mpv_process'}
               /\ playing' = "idle" /\ looping']_vars

\* C18 witness: the relaunched player runs alone
C18_Witness ==
    /\ variant = "two" /\ nSpawn = 2 /\ alive = {2} /\ mpv_process = 2
    /\ playing = "idle" /\ looping /\ pc = "loop_sleep"

\* C19: no command of a trigger cycle is delivered after the player that was
\* alive at the test of line 156 has exited or has been replaced.
C19_NoCommandAfterPlayerDied ==
    staleSend # "sent"

====
